---- MODULE Spec2Model ----
(***************************************************************************)
(* Adafruit_SSD1306 (ESP-IDF I2C port): the pixel buffer, the rotation     *)
(* transform of drawPixel/getPixel, and the I2C traffic of begin(),        *)
(* display() and the device control operations.                            *)
(*                                                                         *)
(* A state is the driver object between two calls of its public methods.   *)
(* Every method is one action; `last' and `bus' record the call that just  *)
(* returned and the I2C driver calls it made, and Return is the caller     *)
(* getting ready for its next call.                                        *)
(***************************************************************************)
EXTENDS Integers, Sequences, FiniteSets

\* ------------------------------------------------------------------------
\* Bounds of the model
\* ------------------------------------------------------------------------

\* In-bounds drawPixel calls the caller makes after a clearDisplay()/begin().
MaxDraws == 1

\* The environment may refuse the command link of one, or fail the transfers
\* of any, of the first MaxFault transactions of an operation.
MaxFault == 3

\* Panel geometries (WIDTH, HEIGHT) the driver is constructed with: the three
\* begin() knows and one it does not (two pages, the second one partial).
Panels == { <<128, 64>>, <<128, 32>>, <<96, 16>>, <<2, 9>> }

\* The panel on which every coordinate is tried
SmallPanel == <<2, 9>>

\* The panels of the drawing interface's specification
PixelPanels == { SmallPanel, <<128, 64>> }

\* ------------------------------------------------------------------------
\* Program constants (Adafruit_SSD1306.h, splash.h; SSD1306 datasheet values)
\* ------------------------------------------------------------------------
SSD1306_BLACK   == 0
SSD1306_WHITE   == 1
SSD1306_INVERSE == 2

SSD1306_MEMORYMODE          == 32    \* 0x20
SSD1306_COLUMNADDR          == 33    \* 0x21
SSD1306_PAGEADDR            == 34    \* 0x22
SSD1306_SETCONTRAST         == 129   \* 0x81
SSD1306_CHARGEPUMP          == 141   \* 0x8D
SSD1306_SEGREMAP            == 160   \* 0xA0
SSD1306_DISPLAYALLON_RESUME == 164   \* 0xA4
SSD1306_NORMALDISPLAY       == 166   \* 0xA6
SSD1306_INVERTDISPLAY       == 167   \* 0xA7
SSD1306_SETMULTIPLEX        == 168   \* 0xA8
SSD1306_DISPLAYOFF          == 174   \* 0xAE
SSD1306_DISPLAYON           == 175   \* 0xAF
SSD1306_COMSCANDEC          == 200   \* 0xC8
SSD1306_SETDISPLAYOFFSET    == 211   \* 0xD3
SSD1306_SETDISPLAYCLOCKDIV  == 213   \* 0xD5
SSD1306_SETPRECHARGE        == 217   \* 0xD9
SSD1306_SETCOMPINS          == 218   \* 0xDA
SSD1306_SETVCOMDETECT       == 219   \* 0xDB
SSD1306_SETSTARTLINE        == 64    \* 0x40
SSD1306_RIGHT_HORIZONTAL_SCROLL              == 38   \* 0x26
SSD1306_LEFT_HORIZONTAL_SCROLL               == 39   \* 0x27
SSD1306_VERTICAL_AND_RIGHT_HORIZONTAL_SCROLL == 41   \* 0x29
SSD1306_VERTICAL_AND_LEFT_HORIZONTAL_SCROLL  == 42   \* 0x2A
SSD1306_DEACTIVATE_SCROLL   == 46    \* 0x2E
SSD1306_ACTIVATE_SCROLL     == 47    \* 0x2F
SSD1306_SET_VERTICAL_SCROLL_AREA == 163  \* 0xA3

SSD1306_I2C_ADDRESS == 60    \* 0x3C
I2C_MASTER_WRITE    == 0
SSD1306_CMD_STREAM  == 0     \* 0x00
SSD1306_DATA_STREAM == 64    \* 0x40

splash1_width  == 82
splash1_height == 64
splash2_width  == 115
splash2_height == 32

\* ------------------------------------------------------------------------
\* C arithmetic on the values the driver handles
\* ------------------------------------------------------------------------
RECURSIVE BitAnd(_, _), BitOr(_, _), BitXor(_, _)
\* a & b, a | b, a ^ b on non-negative integers
BitAnd(a, b) ==
    IF a = 0 \/ b = 0 THEN 0
    ELSE (IF a % 2 = 1 /\ b % 2 = 1 THEN 1 ELSE 0) + 2 * BitAnd(a \div 2, b \div 2)

BitOr(a, b) ==
    IF a = 0 THEN b ELSE IF b = 0 THEN a
    ELSE (IF a % 2 = 1 \/ b % 2 = 1 THEN 1 ELSE 0) + 2 * BitOr(a \div 2, b \div 2)

BitXor(a, b) ==
    IF a = 0 THEN b ELSE IF b = 0 THEN a
    ELSE ((a + b) % 2) + 2 * BitXor(a \div 2, b \div 2)

\* (uint8_t) v
U8(v) == v % 256

\* ~m, as the low byte that "&=" stores back into a uint8_t
NotU8(m) == 255 - m

\* 1 << k
Shl1(k) == 2 ^ k

\* a / b of C (truncation toward zero), b > 0
CDiv(a, b) == IF a >= 0 THEN a \div b ELSE -((-a) \div b)

\* ssd1306_swap(a, b): the no-temp-var swap; the pair (a, b) after it
ssd1306_swap(a, b) ==
    LET a1 == BitXor(a, b)
        b1 == BitXor(b, a1)
        a2 == BitXor(a1, b1)
    IN  <<a2, b1>>

\* ------------------------------------------------------------------------
\* State
\* ------------------------------------------------------------------------
VARIABLES
    WIDTH, HEIGHT,   \* native panel size, fixed by the constructor
    width, height,   \* Adafruit_GFX _width/_height: the size as rotated
    rotation,        \* Adafruit_GFX rotation, 0..3
    buffer,          \* the pixel buffer: NULL, or its bytes (byte i at i+1)
    contrast,        \* the contrast byte begin() chose
    alive,           \* the object has not been destroyed
    allocs,          \* successful malloc() calls so far
    drawn,           \* in-bounds drawPixel calls since the buffer was cleared
    pc,              \* "idle": ready for a call; "returned": a call returned
    last,            \* the call that returned last, its arguments and result
    bus              \* the I2C driver calls that call made, in order

vars == <<WIDTH, HEIGHT, width, height, rotation, buffer, contrast, alive,
          allocs, drawn, pc, last, bus>>

driver == <<WIDTH, HEIGHT, width, height, rotation, buffer, contrast, alive, allocs>>

NULL == <<>>

\* What the environment does to one operation's transactions: `null' are the
\* transactions (by position) whose i2c_cmd_link_create() returns NULL, `fail'
\* those whose i2c_master_cmd_begin() returns an error.
NoFault == [null |-> {}, fail |-> {}]

Faults ==
    { NoFault }
    \cup { [null |-> {k}, fail |-> {}] : k \in 1..MaxFault }
    \cup { [null |-> {}, fail |-> F] : F \in SUBSET (1..MaxFault) }

\* The record of a call: op, up to three arguments, the boolean result (FALSE
\* for a void method), the value getPixel would have returned before the call
\* (drawPixel only), the splash bitmap and the environment's faults.
Call(op, a, b, c, ret, was, bm, e) ==
    [op |-> op, a |-> a, b |-> b, c |-> c, ret |-> ret, was |-> was, bm |-> bm, e |-> e]

NoCall == Call("none", 0, 0, 0, FALSE, FALSE, <<>>, NoFault)

\* WIDTH * ((HEIGHT + 7) / 8)
BufferSize == WIDTH * ((HEIGHT + 7) \div 8)


\* ------------------------------------------------------------------------
\* Adafruit_GFX: the rotation and the size accessors the driver inherits
\* ------------------------------------------------------------------------

\* setRotation(r): rotation = r & 3; _width/_height are WIDTH/HEIGHT, swapped
\* for rotations 1 and 3.
setRotation(r) ==
    LET rot == BitAnd(r, 3)
    IN  [rotation |-> rot,
         width    |-> IF rot \in {1, 3} THEN HEIGHT ELSE WIDTH,
         height   |-> IF rot \in {1, 3} THEN WIDTH ELSE HEIGHT]

\* ------------------------------------------------------------------------
\* Drawing functions
\* ------------------------------------------------------------------------

\* Mutant: the bounds test against the native size, whatever the rotation
drawInBoundsNative(x, y) == (x >= 0) /\ (x < WIDTH) /\ (y >= 0) /\ (y < HEIGHT)

\* drawPixel's bounds test
drawInBounds(x, y) == (x >= 0) /\ (x < width) /\ (y >= 0) /\ (y < height)

\* Mutant: rotation 1 mirrors the column without swapping x and y first
drawRotateNoSwap(x, y) ==
    LET s == ssd1306_swap(x, y)
    IN  CASE rotation = 1 -> <<WIDTH - x - 1, y>>
          [] rotation = 2 -> <<WIDTH - x - 1, HEIGHT - y - 1>>
          [] rotation = 3 -> <<s[1], HEIGHT - s[2] - 1>>
          [] OTHER        -> <<x, y>>

\* drawPixel's switch on getRotation(): the physical (x, y) of an in-bounds pixel
drawRotate(x, y) ==
    LET s == ssd1306_swap(x, y)
    IN  CASE rotation = 1 -> <<WIDTH - s[1] - 1, s[2]>>
          [] rotation = 2 -> <<WIDTH - x - 1, HEIGHT - y - 1>>
          [] rotation = 3 -> <<s[1], HEIGHT - s[2] - 1>>
          [] OTHER        -> <<x, y>>

\* Mutant: the pixel is written where it would be under rotation 0
drawPixelUnrotated(buf, x, y, color) ==
    IF (x >= 0) /\ (x < WIDTH) /\ (y >= 0) /\ (y < HEIGHT)
    THEN LET i == x + (y \div 8) * WIDTH
             m == Shl1(BitAnd(y, 7))
         IN  CASE color = SSD1306_WHITE   -> [buf EXCEPT ![i + 1] = BitOr(@, m)]
               [] color = SSD1306_BLACK   -> [buf EXCEPT ![i + 1] = BitAnd(@, NotU8(m))]
               [] color = SSD1306_INVERSE -> [buf EXCEPT ![i + 1] = BitXor(@, m)]
               [] OTHER                   -> buf
    ELSE buf

\* drawPixel(x, y, color) on buffer contents buf: the contents after it
drawPixel(buf, x, y, color) ==
    IF drawInBounds(x, y)
    THEN LET p == drawRotate(x, y)
             i == p[1] + (p[2] \div 8) * WIDTH
             m == Shl1(BitAnd(p[2], 7))
         IN  CASE color = SSD1306_WHITE   -> [buf EXCEPT ![i + 1] = BitOr(@, m)]
               [] color = SSD1306_BLACK   -> [buf EXCEPT ![i + 1] = BitAnd(@, NotU8(m))]
               [] color = SSD1306_INVERSE -> [buf EXCEPT ![i + 1] = BitXor(@, m)]
               [] OTHER                   -> buf
    ELSE buf

\* clearDisplay(): memset(buffer, 0, WIDTH * ((HEIGHT + 7) / 8))
clearDisplay(buf) == [i \in DOMAIN buf |-> IF i <= BufferSize THEN 0 ELSE buf[i]]

\* getPixel's bounds test
getInBounds(x, y) == (x >= 0) /\ (x < width) /\ (y >= 0) /\ (y < height)

\* getPixel(x, y) on buffer contents buf: its result
getPixel(buf, x, y) ==
    IF getInBounds(x, y)
    THEN LET s == ssd1306_swap(x, y)
             p == CASE rotation = 1 -> <<WIDTH - s[1] - 1, s[2]>>
                    [] rotation = 2 -> <<WIDTH - x - 1, HEIGHT - y - 1>>
                    [] rotation = 3 -> <<s[1], HEIGHT - s[2] - 1>>
                    [] OTHER        -> <<x, y>>
         IN  BitAnd(buf[p[1] + (p[2] \div 8) * WIDTH + 1], Shl1(BitAnd(p[2], 7))) # 0
    ELSE FALSE

\* Adafruit_GFX drawBitmap(x, y, bitmap, w, h, color): drawPixel at (x+i, y+j)
\* for every set bit (i, j) of the bitmap; bits lists the set bits in row order.
RECURSIVE drawBitmap(_, _, _, _, _)
drawBitmap(buf, x, y, bits, color) ==
    IF bits = <<>> THEN buf
    ELSE drawBitmap(drawPixel(buf, x + Head(bits)[1], y + Head(bits)[2], color),
                    x, y, Tail(bits), color)

\* begin()'s splash: splash1 on panels taller than 32 rows, else splash2, centred.
\* bits are the set bits of the bitmap compiled in (none under SSD1306_NO_SPLASH).
splash(buf, bits) ==
    IF HEIGHT > 32
    THEN drawBitmap(buf, CDiv(WIDTH - splash1_width, 2), CDiv(HEIGHT - splash1_height, 2), bits, 1)
    ELSE drawBitmap(buf, CDiv(WIDTH - splash2_width, 2), CDiv(HEIGHT - splash2_height, 2), bits, 1)

\* The splash bitmaps tried: none, and one with three set bits, of which at
\* least one falls on every panel of Panels.
Bitmaps == { <<>>, << <<0, 0>>, <<57, 12>>, <<81, 31>> >> }


\* ------------------------------------------------------------------------
\* I2C transactions
\* ------------------------------------------------------------------------

\* One call of the ESP-IDF I2C driver on a command link: h is FALSE when the
\* link handed to it is NULL, val the byte written or the transfer's outcome
\* (1: i2c_master_cmd_begin returned ESP_OK, 0: an error, which
\* ESP_ERROR_CHECK_WITHOUT_ABORT logs).
Ev(call, h, val) == [call |-> call, h |-> h, val |-> val]

\* i2c_master_write_byte(cmd, b, true) for each byte of bytes
Writes(h, bytes) == [k \in 1..Len(bytes) |-> Ev("write", h, U8(bytes[k]))]

\* start, address in write mode, stream selector, payload, stop, cmd_begin
Transaction(h, ok, stream, bytes) ==
    << Ev("start", h, 0),
       Ev("write", h, U8(BitOr(SSD1306_I2C_ADDRESS * 2, I2C_MASTER_WRITE))),
       Ev("write", h, U8(stream)) >>
    \o Writes(h, bytes)
    \o << Ev("stop", h, 0),
          Ev("cmd_begin", h, IF ok THEN 1 ELSE 0) >>

\* Mutant: a transfer that failed is made once more
ssd1306_command1Retry(c, k, e) ==
    IF k \notin e.null
    THEN IF k \in e.fail
         THEN Transaction(TRUE, FALSE, SSD1306_CMD_STREAM, <<c>>)
              \o Transaction(TRUE, TRUE, SSD1306_CMD_STREAM, <<c>>)
         ELSE Transaction(TRUE, TRUE, SSD1306_CMD_STREAM, <<c>>)
    ELSE <<>>

\* ssd1306_command1(c) as transaction k of an operation under faults e
ssd1306_command1(c, k, e) ==
    IF k \notin e.null
    THEN Transaction(TRUE, k \notin e.fail, SSD1306_CMD_STREAM, <<c>>)
    ELSE <<>>

\* Mutant: the command bytes follow the address, with no stream selector
ssd1306_commandListNoSelector(c, k, e) ==
    IF k \notin e.null
    THEN << Ev("start", TRUE, 0),
            Ev("write", TRUE, U8(BitOr(SSD1306_I2C_ADDRESS * 2, I2C_MASTER_WRITE))) >>
         \o Writes(TRUE, c)
         \o << Ev("stop", TRUE, 0),
               Ev("cmd_begin", TRUE, IF k \notin e.fail THEN 1 ELSE 0) >>
    ELSE <<>>

\* ssd1306_commandList(c, n) as transaction k of an operation under faults e
ssd1306_commandList(c, k, e) ==
    IF k \notin e.null
    THEN Transaction(TRUE, k \notin e.fail, SSD1306_CMD_STREAM, c)
    ELSE <<>>

\* A sequence of sends, each <<"list", bytes>> or <<"cmd1", <<byte>>>>, issued
\* one after the other as transactions first, first+1, ...
RECURSIVE Sends(_, _, _)
Sends(seq, first, e) ==
    IF seq = <<>> THEN <<>>
    ELSE (IF Head(seq)[1] = "list"
          THEN ssd1306_commandList(Head(seq)[2], first, e)
          ELSE ssd1306_command1(Head(seq)[2][1], first, e))
         \o Sends(Tail(seq), first + 1, e)

List(bytes) == <<"list", bytes>>
Cmd1(c)     == <<"cmd1", <<c>>>>

\* ------------------------------------------------------------------------
\* begin()
\* ------------------------------------------------------------------------

\* Mutant: the contrasts of the 128x32 and the 128x64 panel exchanged
beginContrastExchanged ==
    IF (WIDTH = 128) /\ (HEIGHT = 32) THEN 207
    ELSE IF (WIDTH = 128) /\ (HEIGHT = 64) THEN 143
    ELSE IF (WIDTH = 96) /\ (HEIGHT = 16) THEN 175
    ELSE 143

\* The contrast begin() selects for the geometry
beginContrast ==
    IF (WIDTH = 128) /\ (HEIGHT = 32) THEN 143          \* 0x8F
    ELSE IF (WIDTH = 128) /\ (HEIGHT = 64) THEN 207     \* 0xCF
    ELSE IF (WIDTH = 96) /\ (HEIGHT = 16) THEN 175      \* 0xAF
    ELSE 143                                            \* 0x8F

\* The COM pins configuration begin() selects for the geometry
beginComPins ==
    IF (WIDTH = 128) /\ (HEIGHT = 32) THEN 2
    ELSE IF (WIDTH = 128) /\ (HEIGHT = 64) THEN 18      \* 0x12
    ELSE IF (WIDTH = 96) /\ (HEIGHT = 16) THEN 2
    ELSE 2

\* The init sequence of begin(), given the contrast it has just stored
beginSends(ct) ==
    << List(<<SSD1306_DISPLAYOFF, SSD1306_SETDISPLAYCLOCKDIV, 128, SSD1306_SETMULTIPLEX>>),
       Cmd1(HEIGHT - 1),
       List(<<SSD1306_SETDISPLAYOFFSET, 0, BitOr(SSD1306_SETSTARTLINE, 0), SSD1306_CHARGEPUMP>>),
       Cmd1(20),
       List(<<SSD1306_MEMORYMODE, 0, BitOr(SSD1306_SEGREMAP, 1), SSD1306_COMSCANDEC>>),
       Cmd1(SSD1306_SETCOMPINS),
       Cmd1(beginComPins),
       Cmd1(SSD1306_SETCONTRAST),
       Cmd1(ct),
       Cmd1(SSD1306_SETPRECHARGE),
       Cmd1(241),
       List(<<SSD1306_SETVCOMDETECT, 64, SSD1306_DISPLAYALLON_RESUME,
              SSD1306_NORMALDISPLAY, SSD1306_DEACTIVATE_SCROLL, SSD1306_DISPLAYON>>) >>

\* malloc(n): n bytes of indeterminate content g
malloc(n, g) == [i \in 1..n |-> g]

\* begin() returning false: nothing but the result changes
beginFalse(mallocOk, bits, e) ==
    /\ UNCHANGED driver
    /\ drawn' = drawn
    /\ bus' = <<>>
    /\ last' = Call("begin", IF mallocOk THEN 1 ELSE 0, 0, 0, FALSE, buffer = NULL, bits, e)

\* begin() from clearDisplay() on: buf is the buffer, fresh when isNew
beginInit(buf, isNew, mallocOk, bits, e) ==
    /\ buffer' = splash(clearDisplay(buf), bits)
    /\ allocs' = IF isNew THEN allocs + 1 ELSE allocs
    /\ contrast' = beginContrast
    /\ bus' = Sends(beginSends(beginContrast), 1, e)
    /\ drawn' = 0
    /\ last' = Call("begin", IF mallocOk THEN 1 ELSE 0, 0, 0, TRUE, buffer = NULL, bits, e)
    /\ UNCHANGED <<WIDTH, HEIGHT, width, height, rotation, alive>>

\* Mutant: the init sequence is sent before the allocation is looked at
beginSendsBeforeCheck(mallocOk, g, bits, e) ==
    IF (buffer = NULL) /\ ~mallocOk
    THEN /\ UNCHANGED <<WIDTH, HEIGHT, width, height, rotation, buffer, alive, allocs>>
         /\ contrast' = beginContrast
         /\ drawn' = drawn
         /\ bus' = Sends(beginSends(beginContrast), 1, e)
         /\ last' = Call("begin", 0, 0, 0, FALSE, TRUE, bits, e)
    ELSE beginInit(IF buffer = NULL THEN malloc(BufferSize, g) ELSE buffer,
                   buffer = NULL, mallocOk, bits, e)

\* Mutant: every begin() allocates a buffer
beginAlwaysAllocates(mallocOk, g, bits, e) ==
    IF ~mallocOk
    THEN beginFalse(mallocOk, bits, e)
    ELSE beginInit(malloc(BufferSize, g), TRUE, mallocOk, bits, e)

\* begin(): mallocOk is whether malloc() would succeed, g what the fresh
\* memory holds, bits the splash bitmap, e the bus faults.
begin(mallocOk, g, bits, e) ==
    IF (buffer = NULL) /\ ~mallocOk
    THEN beginFalse(mallocOk, bits, e)
    ELSE beginInit(IF buffer = NULL THEN malloc(BufferSize, g) ELSE buffer,
                   buffer = NULL, mallocOk, bits, e)

\* ------------------------------------------------------------------------
\* display()
\* ------------------------------------------------------------------------

\* Mutant: count = WIDTH * (HEIGHT / 8), the whole pages only
displayDataWholePages(k, e) ==
    Transaction(k \notin e.null, k \notin e.null \cup e.fail, SSD1306_DATA_STREAM,
                [i \in 1..(WIDTH * (HEIGHT \div 8)) |-> buffer[i]])

\* display()'s own transaction: the link is used without a NULL test
displayData(k, e) ==
    Transaction(k \notin e.null, k \notin e.null \cup e.fail, SSD1306_DATA_STREAM,
                [i \in 1..BufferSize |-> buffer[i]])

displayLog(e) ==
    Sends(<< List(<<SSD1306_PAGEADDR, 0, 255, SSD1306_COLUMNADDR, 0>>),
             Cmd1(WIDTH - 1) >>, 1, e)
    \o displayData(3, e)

\* ------------------------------------------------------------------------
\* Scrolling and other hardware settings: the sends of each operation
\* ------------------------------------------------------------------------
startscrollrightSends(start, stop) ==
    << List(<<SSD1306_RIGHT_HORIZONTAL_SCROLL, 0>>), Cmd1(start), Cmd1(0), Cmd1(stop),
       List(<<0, 255, SSD1306_ACTIVATE_SCROLL>>) >>

startscrollleftSends(start, stop) ==
    << List(<<SSD1306_LEFT_HORIZONTAL_SCROLL, 0>>), Cmd1(start), Cmd1(0), Cmd1(stop),
       List(<<0, 255, SSD1306_ACTIVATE_SCROLL>>) >>

startscrolldiagrightSends(start, stop) ==
    << List(<<SSD1306_SET_VERTICAL_SCROLL_AREA, 0>>), Cmd1(HEIGHT),
       List(<<SSD1306_VERTICAL_AND_RIGHT_HORIZONTAL_SCROLL, 0>>),
       Cmd1(start), Cmd1(0), Cmd1(stop),
       List(<<1, SSD1306_ACTIVATE_SCROLL>>) >>

startscrolldiagleftSends(start, stop) ==
    << List(<<SSD1306_SET_VERTICAL_SCROLL_AREA, 0>>), Cmd1(HEIGHT),
       List(<<SSD1306_VERTICAL_AND_LEFT_HORIZONTAL_SCROLL, 0>>),
       Cmd1(start), Cmd1(0), Cmd1(stop),
       List(<<1, SSD1306_ACTIVATE_SCROLL>>) >>

stopscrollSends == << Cmd1(SSD1306_DEACTIVATE_SCROLL) >>

invertDisplaySends(i) ==
    << Cmd1(IF i THEN SSD1306_INVERTDISPLAY ELSE SSD1306_NORMALDISPLAY) >>

dimSends(dim) == << Cmd1(SSD1306_SETCONTRAST), Cmd1(IF dim THEN 0 ELSE contrast) >>

ssd1306_commandSends(c) == << Cmd1(c) >>


\* ------------------------------------------------------------------------
\* The calls the caller makes, and their arguments
\* ------------------------------------------------------------------------

\* x and y passed to drawPixel/getPixel by the drawing interface's
\* specification: on the small panel every coordinate from one left of (above)
\* the screen to one right of (below) it, as rotated; on the other the pixel
\* (10, 20) and the nearest coordinates off the screen.
PixelXs == IF <<WIDTH, HEIGHT>> = SmallPanel THEN -1..width ELSE {-1, 10, width}
PixelYs == IF <<WIDTH, HEIGHT>> = SmallPanel THEN -1..height ELSE {-1, 20, height}

\* x and y passed to drawPixel/getPixel by the specification of the whole
\* driver: the pixel (1, 2), on the screen of every panel under every rotation,
\* and the coordinate -1.
BusXs == {-1, 1}
BusYs == {-1, 2}

\* color passed to drawPixel: the three modes and a value that is none of them
Colors == {SSD1306_BLACK, SSD1306_WHITE, SSD1306_INVERSE, 3}

\* r passed to setRotation: by the drawing interface's specification, and by
\* the specification of the whole driver
PixelRotations == 0..4
BusRotations == {0, 1, 5}

\* (start, stop) passed to the scroll operations: a whole-display scroll, and
\* a misordered pair outside the page range
ScrollArgs == { <<0, 15>>, <<255, 200>> }

\* c passed to ssd1306_command
Commands == {SSD1306_DISPLAYOFF, 255}

\* What an uninitialised byte (contrast before begin(), fresh malloc memory) holds
Indeterminate == {0, 255}

Ready == alive /\ pc = "idle"

\* A call that only sends commands: the driver's state is left as it is
Control(call, sends) ==
    /\ pc' = "returned"
    /\ last' = call
    /\ bus' = Sends(sends, 1, call.e)
    /\ UNCHANGED <<driver, drawn>>

Begin(FS) ==
    /\ Ready
    /\ \E mallocOk \in BOOLEAN, g \in Indeterminate, bits \in Bitmaps, e \in FS :
        /\ pc' = "returned"
        /\ begin(mallocOk, g, bits, e)

SetRotation(RS) ==
    /\ Ready
    /\ \E r \in RS :
        /\ pc' = "returned"
        /\ rotation' = setRotation(r).rotation
        /\ width' = setRotation(r).width
        /\ height' = setRotation(r).height
        /\ last' = Call("setRotation", r, 0, 0, FALSE, FALSE, <<>>, NoFault)
        /\ bus' = <<>>
        /\ UNCHANGED <<WIDTH, HEIGHT, buffer, contrast, alive, allocs, drawn>>

\* drawPixel: begin() MUST have been called before any drawing, so a call that
\* reaches the buffer is made only once the buffer exists.
DrawPixel(XS, YS) ==
    /\ Ready
    /\ \E x \in XS, y \in YS, color \in Colors :
        /\ drawInBounds(x, y) => (buffer # NULL /\ drawn < MaxDraws)
        /\ pc' = "returned"
        /\ buffer' = drawPixel(buffer, x, y, color)
        /\ drawn' = IF drawInBounds(x, y) THEN drawn + 1 ELSE drawn
        /\ last' = Call("drawPixel", x, y, color, FALSE,
                        buffer # NULL /\ getPixel(buffer, x, y), <<>>, NoFault)
        /\ bus' = <<>>
        /\ UNCHANGED <<WIDTH, HEIGHT, width, height, rotation, contrast, alive, allocs>>

GetPixel(XS, YS) ==
    /\ Ready
    /\ \E x \in XS, y \in YS :
        /\ getInBounds(x, y) => buffer # NULL
        /\ pc' = "returned"
        /\ last' = Call("getPixel", x, y, 0, getPixel(buffer, x, y), FALSE, <<>>, NoFault)
        /\ bus' = <<>>
        /\ UNCHANGED <<driver, drawn>>

ClearDisplay ==
    /\ Ready
    /\ buffer # NULL
    /\ pc' = "returned"
    /\ buffer' = clearDisplay(buffer)
    /\ drawn' = 0
    /\ last' = Call("clearDisplay", 0, 0, 0, FALSE, FALSE, <<>>, NoFault)
    /\ bus' = <<>>
    /\ UNCHANGED <<WIDTH, HEIGHT, width, height, rotation, contrast, alive, allocs>>

\* Mutant: display() clears the buffer once it is sent
DisplayThenClear ==
    /\ Ready
    /\ \E e \in Faults :
        /\ buffer # NULL
        /\ pc' = "returned"
        /\ last' = Call("display", 0, 0, 0, FALSE, FALSE, <<>>, e)
        /\ bus' = displayLog(e)
        /\ buffer' = clearDisplay(buffer)
        /\ UNCHANGED <<WIDTH, HEIGHT, width, height, rotation, contrast, alive, allocs, drawn>>

\* display()
Display ==
    /\ Ready
    /\ \E e \in Faults :
        /\ buffer # NULL
        /\ pc' = "returned"
        /\ last' = Call("display", 0, 0, 0, FALSE, FALSE, <<>>, e)
        /\ bus' = displayLog(e)
        /\ UNCHANGED <<driver, drawn>>

Ssd1306Command ==
    /\ Ready
    /\ \E c \in Commands, e \in Faults :
        Control(Call("ssd1306_command", c, 0, 0, FALSE, FALSE, <<>>, e), ssd1306_commandSends(c))

StartScrollRight ==
    /\ Ready
    /\ \E a \in ScrollArgs, e \in Faults :
        Control(Call("startscrollright", a[1], a[2], 0, FALSE, FALSE, <<>>, e),
                startscrollrightSends(a[1], a[2]))

StartScrollLeft ==
    /\ Ready
    /\ \E a \in ScrollArgs, e \in Faults :
        Control(Call("startscrollleft", a[1], a[2], 0, FALSE, FALSE, <<>>, e),
                startscrollleftSends(a[1], a[2]))

StartScrollDiagRight ==
    /\ Ready
    /\ \E a \in ScrollArgs, e \in Faults :
        Control(Call("startscrolldiagright", a[1], a[2], 0, FALSE, FALSE, <<>>, e),
                startscrolldiagrightSends(a[1], a[2]))

StartScrollDiagLeft ==
    /\ Ready
    /\ \E a \in ScrollArgs, e \in Faults :
        Control(Call("startscrolldiagleft", a[1], a[2], 0, FALSE, FALSE, <<>>, e),
                startscrolldiagleftSends(a[1], a[2]))

StopScroll ==
    /\ Ready
    /\ \E e \in Faults :
        Control(Call("stopscroll", 0, 0, 0, FALSE, FALSE, <<>>, e), stopscrollSends)

InvertDisplay ==
    /\ Ready
    /\ \E i \in BOOLEAN, e \in Faults :
        Control(Call("invertDisplay", IF i THEN 1 ELSE 0, 0, 0, FALSE, FALSE, <<>>, e),
                invertDisplaySends(i))

Dim ==
    /\ Ready
    /\ \E d \in BOOLEAN, e \in Faults :
        Control(Call("dim", IF d THEN 1 ELSE 0, 0, 0, FALSE, FALSE, <<>>, e), dimSends(d))

\* ~Adafruit_SSD1306(): the buffer is freed; the object takes no further call
Destroy ==
    /\ Ready
    /\ pc' = "returned"
    /\ alive' = FALSE
    /\ buffer' = NULL
    /\ last' = Call("destroy", 0, 0, 0, FALSE, FALSE, <<>>, NoFault)
    /\ bus' = <<>>
    /\ UNCHANGED <<WIDTH, HEIGHT, width, height, rotation, contrast, allocs, drawn>>

\* The caller has looked at the result and is ready for its next call
Return ==
    /\ pc = "returned"
    /\ pc' = "idle"
    /\ last' = NoCall
    /\ bus' = <<>>
    /\ UNCHANGED <<driver, drawn>>

\* The constructor: Adafruit_GFX(w, h) with rotation 0, buffer(NULL); contrast
\* is not initialised.
Construct(PS) ==
    /\ \E p \in PS : WIDTH = p[1] /\ HEIGHT = p[2] /\ width = p[1] /\ height = p[2]
    /\ rotation = 0
    /\ buffer = NULL
    /\ contrast \in Indeterminate
    /\ alive = TRUE
    /\ allocs = 0
    /\ drawn = 0
    /\ pc = "idle"
    /\ last = NoCall
    /\ bus = <<>>

\* The whole driver
Init == Construct(Panels)

Next ==
    \/ Begin(Faults)
    \/ SetRotation(BusRotations)
    \/ DrawPixel(BusXs, BusYs)
    \/ GetPixel(BusXs, BusYs)
    \/ ClearDisplay
    \/ Display
    \/ Ssd1306Command
    \/ StartScrollRight
    \/ StartScrollLeft
    \/ StartScrollDiagRight
    \/ StartScrollDiagLeft
    \/ StopScroll
    \/ InvertDisplay
    \/ Dim
    \/ Destroy
    \/ Return

Spec == Init /\ [][Next]_vars

\* The drawing interface, tried on every coordinate of the small panel, on a
\* bus without faults
PixelInit == Construct(PixelPanels)

PixelNext ==
    \/ Begin({NoFault})
    \/ SetRotation(PixelRotations)
    \/ DrawPixel(PixelXs, PixelYs)
    \/ GetPixel(PixelXs, PixelYs)
    \/ ClearDisplay
    \/ Return

PixelSpec == PixelInit /\ [][PixelNext]_vars


\* ========================================================================
\* Properties
\* ========================================================================

\* A call of op has just returned
Returned(op) == pc = "returned" /\ last.op = op

\* The logical screen, in the words of the specification: WIDTH x HEIGHT,
\* swapped for rotations 1 and 3
LogicalWidth  == IF rotation \in {1, 3} THEN HEIGHT ELSE WIDTH
LogicalHeight == IF rotation \in {1, 3} THEN WIDTH ELSE HEIGHT
OnScreen(x, y) == x >= 0 /\ x < LogicalWidth /\ y >= 0 /\ y < LogicalHeight

\* The specification's transform of a logical (x, y) to the physical one
PhysicalOf(x, y) ==
    CASE rotation = 0 -> <<x, y>>
      [] rotation = 1 -> <<WIDTH - 1 - y, x>>
      [] rotation = 2 -> <<WIDTH - 1 - x, HEIGHT - 1 - y>>
      [] rotation = 3 -> <<y, HEIGHT - 1 - x>>

\* ceil(h / 8)
Ceil8(h) == IF h % 8 = 0 THEN h \div 8 ELSE h \div 8 + 1

\* Bit k of byte b
BitOf(b, k) == (b \div (2 ^ k)) % 2

\* ------------------------------------------------------------------------
\* C1: after an on-screen drawPixel(x, y, color), getPixel(x, y) under the same
\* rotation returns true for WHITE, false for BLACK, and for INVERSE the
\* negation of what it returned before the call.
C1_DrawThenGet ==
    (Returned("drawPixel") /\ OnScreen(last.a, last.b)) =>
        LET now == getPixel(buffer, last.a, last.b)
        IN  /\ last.c = SSD1306_WHITE   => now = TRUE
            /\ last.c = SSD1306_BLACK   => now = FALSE
            /\ last.c = SSD1306_INVERSE => now = ~last.was

\* An INVERSE drawn on a lit pixel of the small panel under rotation 3
C1_Witness ==
    /\ Returned("drawPixel")
    /\ OnScreen(last.a, last.b)
    /\ <<WIDTH, HEIGHT>> = SmallPanel
    /\ rotation = 3
    /\ last.c = SSD1306_INVERSE
    /\ last.was

\* ------------------------------------------------------------------------
\* A step of an on-screen drawPixel(x, y, mode) changes at most bit (py & 7) of
\* the byte at index px + (py / 8) * W, (px, py) being the specification's
\* transform over the native W and H; that index lies in [0, W * ceil(H / 8));
\* every other bit is unchanged; and on a cleared 128x64 buffer
\* drawPixel(10, 20, WHITE) under rotation 0 leaves bit 4 of the byte at index
\* `scenario' set and everything else zero.
OneBitStep(scenario) ==
    (last'.op = "drawPixel" /\ OnScreen(last'.a, last'.b)) =>
        LET p   == PhysicalOf(last'.a, last'.b)
            idx == p[1] + (p[2] \div 8) * WIDTH
            bit == p[2] % 8
        IN  /\ idx >= 0
            /\ idx < WIDTH * Ceil8(HEIGHT)
            /\ Len(buffer') = Len(buffer)
            /\ \A i \in 1..Len(buffer) :
                  IF i = idx + 1
                  THEN \A k \in 0..7 : k # bit => BitOf(buffer'[i], k) = BitOf(buffer[i], k)
                  ELSE buffer'[i] = buffer[i]
            /\ ( /\ <<WIDTH, HEIGHT>> = <<128, 64>>
                 /\ rotation = 0
                 /\ buffer = [i \in 1..1024 |-> 0]
                 /\ <<last'.a, last'.b, last'.c>> = <<10, 20, SSD1306_WHITE>> )
               => buffer' = [i \in 1..1024 |-> IF i = scenario + 1 THEN 16 ELSE 0]

\* C2 as amended: an on-screen drawPixel changes at most the one bit the
\* specification's transform names, the index is within the buffer, every other
\* bit is unchanged, and drawPixel(10, 20, WHITE) on a cleared 128x64 buffer
\* under rotation 0 leaves exactly byte 266 (10 + (20 / 8) * 128 in integer
\* division) with bit 4 set.
C2_OneBit == [][OneBitStep(266)]_vars

\* C2 as claimed: the same, with byte 330 in the 128x64 scenario.
C2_Original == [][OneBitStep(330)]_vars

\* drawPixel(10, 20, WHITE) has lit one pixel of a cleared 128x64 buffer
C2_Witness ==
    /\ Returned("drawPixel")
    /\ <<WIDTH, HEIGHT>> = <<128, 64>>
    /\ rotation = 0
    /\ <<last.a, last.b, last.c>> = <<10, 20, SSD1306_WHITE>>
    /\ ~last.was
    /\ buffer = [i \in 1..1024 |-> IF i = 267 THEN 16 ELSE 0]

\* ------------------------------------------------------------------------
\* C3: for (x, y) off the logical screen, drawPixel with any mode leaves every
\* byte of the buffer as it was, and getPixel returns false (also when there
\* is no buffer to read).
C3_OffScreen ==
    [][ /\ (last'.op = "drawPixel" /\ ~OnScreen(last'.a, last'.b)) => buffer' = buffer
        /\ (last'.op = "getPixel" /\ ~OnScreen(last'.a, last'.b)) =>
               (last'.ret = FALSE /\ buffer' = buffer)
      ]_vars

\* A drawPixel off the rotated screen, at a place the unrotated panel has
C3_Witness ==
    /\ Returned("drawPixel")
    /\ ~OnScreen(last.a, last.b)
    /\ last.a >= 0 /\ last.a < WIDTH /\ last.b >= 0 /\ last.b < HEIGHT
    /\ last.c = SSD1306_WHITE
    /\ buffer # NULL


\* ------------------------------------------------------------------------
\* Reading the I2C calls of an operation
\* ------------------------------------------------------------------------

\* The index of the first cmd_begin of log, or 0
FirstCommit(log) ==
    LET S == { i \in 1..Len(log) : log[i].call = "cmd_begin" }
    IN  IF S = {} THEN 0 ELSE CHOOSE i \in S : \A j \in S : i <= j

\* log cut after each cmd_begin: the transactions, and what follows the last
RECURSIVE Transactions(_)
Transactions(log) ==
    IF log = <<>> THEN <<>>
    ELSE LET n == FirstCommit(log)
         IN  IF n = 0 THEN <<log>>
             ELSE <<SubSeq(log, 1, n)>> \o Transactions(SubSeq(log, n + 1, Len(log)))

\* The calls made on a link that exists: what reaches the bus
Emitted(log) == SelectSeq(log, LAMBDA ev : ev.h)

\* open, address in write mode, one stream selector, at least one payload
\* byte, close, commit, all on the same link
WellFormed(t) ==
    /\ Len(t) >= 6
    /\ t[1].call = "start"
    /\ t[2].call = "write" /\ t[2].val = 2 * SSD1306_I2C_ADDRESS
    /\ t[3].call = "write" /\ t[3].val \in {SSD1306_CMD_STREAM, SSD1306_DATA_STREAM}
    /\ \A i \in 4..(Len(t) - 2) : t[i].call = "write" /\ t[i].val \in 0..255
    /\ t[Len(t) - 1].call = "stop"
    /\ t[Len(t)].call = "cmd_begin"
    /\ \A i \in 1..Len(t) : t[i].h = t[1].h

Selector(t) == t[3].val
Payload(t)  == [i \in 1..(Len(t) - 5) |-> t[i + 3].val]

RECURSIVE Concat(_)
Concat(ss) == IF ss = <<>> THEN <<>> ELSE Head(ss) \o Concat(Tail(ss))

\* The payload bytes sent on the command stream, in order
CommandBytes(log) ==
    LET T == Transactions(Emitted(log))
    IN  Concat([k \in 1..Len(T) |->
                  IF Selector(T[k]) = SSD1306_CMD_STREAM THEN Payload(T[k]) ELSE <<>>])

\* The payloads of the transactions on the data stream, in order
DataPayloads(log) ==
    LET T == Transactions(Emitted(log))
    IN  Concat([k \in 1..Len(T) |->
                  IF Selector(T[k]) = SSD1306_DATA_STREAM THEN <<Payload(T[k])>> ELSE <<>>])

\* The I2C driver gave a link to each of the first n transactions of the call
LinksGiven(call, n) == call.e.null \cap (1..n) = {}

\* ------------------------------------------------------------------------
\* What display() emits: the command bytes page-range (0x22, 0, 255),
\* column-range (0x21) start 0 and end WIDTH - 1, then one data transaction
\* carrying the W * ceil(H / 8) buffer bytes in index order, and nothing else.
DisplayEmits ==
    LET T == Transactions(Emitted(bus))
    IN  /\ CommandBytes(bus) = <<SSD1306_PAGEADDR, 0, 255, SSD1306_COLUMNADDR, 0, WIDTH - 1>>
        /\ DataPayloads(bus) = <<buffer>>
        /\ Len(buffer) = WIDTH * Ceil8(HEIGHT)
        /\ Len(T) >= 1
        /\ Selector(T[Len(T)]) = SSD1306_DATA_STREAM

C5_AllocationFailure ==
    (Returned("begin") /\ last.was /\ last.a = 0) =>
        (last.ret = FALSE /\ bus = <<>> /\ buffer = NULL)

\* begin() has failed to allocate
C5_Witness ==
    /\ Returned("begin")
    /\ last.was
    /\ last.a = 0
    /\ last.ret = FALSE

\* ------------------------------------------------------------------------
\* The contrast byte of a geometry, as the specification lists it
ContrastOf(w, h) ==
    CASE <<w, h>> = <<128, 64>> -> 207
      [] <<w, h>> = <<128, 32>> -> 143
      [] <<w, h>> = <<96, 16>>  -> 175
      [] OTHER                  -> 143

\* A step of dim() on a driver that has begun sends the set-contrast command
\* and then 0 (dim) or the geometry's contrast, when `links' holds of the call;
\* and no step but one of begin() changes the stored contrast.
DimStep(links(_)) ==
    /\ (last'.op = "dim" /\ buffer # NULL /\ links(last')) =>
           CommandBytes(bus') =
               <<SSD1306_SETCONTRAST, IF last'.a = 1 THEN 0 ELSE ContrastOf(WIDTH, HEIGHT)>>
    /\ contrast' # contrast => last'.op = "begin"

ControlOps ==
    { "invertDisplay", "dim", "startscrollright", "startscrollleft",
      "startscrolldiagright", "startscrolldiagleft", "stopscroll", "ssd1306_command" }

BusOps == ControlOps \cup {"begin", "display"}

\* The I2C calls of a log with the outcome of every transfer taken away: the
\* transactions attempted, and their bytes
Attempted(log) ==
    [i \in 1..Len(log) |->
        IF log[i].call = "cmd_begin" THEN [log[i] EXCEPT !.val = 1] ELSE log[i]]

\* What the call that has returned does on a bus on which no transfer fails
FailureFree ==
    LET e0 == [last.e EXCEPT !.fail = {}]
    IN  CASE last.op = "begin"   -> IF last.ret THEN Sends(beginSends(contrast), 1, e0) ELSE <<>>
          [] last.op = "display" -> displayLog(e0)
          [] last.op = "dim"     -> Sends(dimSends(last.a = 1), 1, e0)
          [] last.op = "invertDisplay"   -> Sends(invertDisplaySends(last.a = 1), 1, e0)
          [] last.op = "stopscroll"      -> Sends(stopscrollSends, 1, e0)
          [] last.op = "ssd1306_command" -> Sends(ssd1306_commandSends(last.a), 1, e0)
          [] last.op = "startscrollright" ->
                 Sends(startscrollrightSends(last.a, last.b), 1, e0)
          [] last.op = "startscrollleft" ->
                 Sends(startscrollleftSends(last.a, last.b), 1, e0)
          [] last.op = "startscrolldiagright" ->
                 Sends(startscrolldiagrightSends(last.a, last.b), 1, e0)
          [] last.op = "startscrolldiagleft" ->
                 Sends(startscrolldiagleftSends(last.a, last.b), 1, e0)

\* C7: whichever transfers fail, an operation returns having attempted the
\* transactions, with the bytes, of the run in which none fails; begin()
\* returns true whenever the buffer was there or its allocation succeeded; and
\* the pixel buffer is what the failure-free run leaves.
C7_FailureSwallowed ==
    [][ last'.op \in BusOps =>
          /\ \A free \in {FailureFree'} : Attempted(bus') = Attempted(free)
          /\ (last'.op = "begin" /\ (~last'.was \/ last'.a = 1)) => last'.ret = TRUE
          /\ buffer' = IF last'.op = "begin" /\ last'.ret
                       THEN (splash(clearDisplay(buffer), last.bm))'
                       ELSE buffer
      ]_vars

\* begin() has returned true although the transfer of its second transaction failed
C7_Witness ==
    /\ Returned("begin")
    /\ last.ret
    /\ last.e.fail = {2}
    /\ \E i \in 1..Len(bus) : bus[i].call = "cmd_begin" /\ bus[i].val = 0
    /\ Len(Transactions(bus)) = 12

\* ------------------------------------------------------------------------
\* C8: invertDisplay, dim, the scroll operations, ssd1306_command and display()
\* leave the pixel buffer, the rotation and the geometry as they were, whatever
\* their arguments; start and stop of a scroll go to the bus as given, on the
\* command links the I2C driver gives.
C8_ControlFrame ==
    [][ last'.op \in ControlOps \cup {"display"} =>
          /\ buffer' = buffer
          /\ rotation' = rotation
          /\ <<WIDTH', HEIGHT', width', height'>> = <<WIDTH, HEIGHT, width, height>>
          /\ (last'.op \in {"startscrollright", "startscrollleft"} /\ last'.e.null = {}) =>
                 /\ Len(CommandBytes(bus')) = 8
                 /\ CommandBytes(bus')[3] = last'.a
                 /\ CommandBytes(bus')[5] = last'.b
          /\ (last'.op \in {"startscrolldiagright", "startscrolldiagleft"} /\ last'.e.null = {}) =>
                 /\ Len(CommandBytes(bus')) = 10
                 /\ CommandBytes(bus')[6] = last'.a
                 /\ CommandBytes(bus')[8] = last'.b
      ]_vars

\* A scroll with start and stop outside the page range has been sent, over a
\* buffer that is not blank and a rotated screen
C8_Witness ==
    /\ Returned("startscrolldiagleft")
    /\ <<last.a, last.b>> = <<255, 200>>
    /\ last.e.null = {}
    /\ rotation = 1
    /\ buffer # NULL
    /\ \E i \in 1..Len(buffer) : buffer[i] # 0

\* ------------------------------------------------------------------------
\* C9: the buffer is allocated at most once, by the first begin() whose
\* allocation succeeds; every later begin() reuses it; and from then until the
\* object is destroyed its length is W * ceil(H / 8).
C9_AllocatedOnce ==
    /\ allocs <= 1
    /\ (buffer # NULL) => (allocs = 1 /\ alive /\ Len(buffer) = WIDTH * Ceil8(HEIGHT))
    /\ (alive /\ allocs = 1) => buffer # NULL
    /\ (Returned("begin") /\ last.ret) => (allocs = 1 /\ buffer # NULL)

\* A second begin() has succeeded on the buffer of the first
C9_Witness ==
    /\ Returned("begin")
    /\ last.ret
    /\ ~last.was
    /\ allocs = 1
    /\ <<WIDTH, HEIGHT>> = SmallPanel

\* ------------------------------------------------------------------------
\* C10: the I2C calls of every operation are a sequence of transactions, each
\* of them open, address in write mode, one stream selector, payload, close,
\* commit, none inside another and none left open; the data stream is selected
\* only by the last transaction of display(), which carries the buffer, and
\* every other transaction, all those of the two command senders, selects the
\* command stream.
C10_TransactionForm ==
    pc = "returned" =>
        LET T == Transactions(Emitted(bus))
        IN  \A k \in 1..Len(T) :
                /\ WellFormed(T[k])
                /\ Selector(T[k]) = SSD1306_DATA_STREAM =>
                       /\ last.op = "display"
                       /\ k = Len(T)
                       /\ Payload(T[k]) = buffer
                /\ (last.op # "display" \/ k < Len(T)) =>
                       Selector(T[k]) = SSD1306_CMD_STREAM

\* display() has made its two command transactions and its data transaction
C10_Witness ==
    /\ Returned("display")
    /\ last.e = NoFault
    /\ Len(Transactions(Emitted(bus))) = 3
    /\ Selector(Transactions(Emitted(bus))[3]) = SSD1306_DATA_STREAM
    /\ Selector(Transactions(Emitted(bus))[1]) = SSD1306_CMD_STREAM

====
